---- MODULE Spec2Model ----
(***************************************************************************)
(* A model of the Earth Engine scripts of GEE_scripts: the yearly          *)
(* Sentinel-1 RVI and Sentinel-2 NDVI compositors with their per-polygon   *)
(* trend statistics, and the CHIRPS, ERA5-Land and GRIDMET seasonal        *)
(* anomaly scripts.                                                        *)
(*                                                                         *)
(* A raster is a function from a small set of pixels to pixel values; a    *)
(* pixel value is an exact rational or masked.  An image is a list of      *)
(* bands, one raster per band, and a set of properties.  The library       *)
(* calls the scripts make (filterDate, reduce, rename, clip, mask,         *)
(* reduceRegion, linearFit, Algorithms.If) are operators that compute      *)
(* what the call computes.                                                 *)
(***************************************************************************)
EXTENDS Integers, Sequences, FiniteSets, TLC

VARIABLES
    script,     \* which script runs: "RVI", "NDVI", "CHIRPS", "ERA5", "GRIDMET"
    frames,     \* the dated source frames of the dataset the script reads
    polygons,   \* the features of the imported asset (a list of geometries)
    yearIdx,    \* how many entries of the list of years the map has taken
    yearly,     \* yearlyRVI / yearlyNDVI: the composites built so far
    polyRows,   \* polygonsWithTrendStats: polygon index -> its trend row
    anomalies,  \* the anomaly images returned so far, one per call
    checks,     \* ERA5 only: the robustness flags computed in each call
    stages,     \* per composite: the steps its map function went through
    trend,      \* rviTrend / ndviTrend: the pixel-wise trend image
    stats,      \* ndviStats: the flattened per-year, per-polygon means
    table,      \* the table handed to Export.table.toDrive
    exports,    \* the images handed to Export.image.toDrive, in order
    charts      \* the titles of the per-polygon charts

vars == <<script, frames, polygons, yearIdx, yearly, polyRows, anomalies, checks,
          stages, trend, stats, table, exports, charts>>

-----------------------------------------------------------------------------
(* Bounds of the model *)

NumPixels == 2
MaxVal == 1
MaxFrames == 2
MaxAnomalyFrames == 2

Pixels == 1..NumPixels

-----------------------------------------------------------------------------
(* Program constants *)

StartYear == 2023
EndYear == 2024
SeasonStartMonth == 3
SeasonStartDay == 1
SeasonEndMonth == 9
SeasonEndDay == 30
NdviSeasonEndMonth == 6
NdviSeasonEndDay == 17
OverallStart == 20230301
OverallEnd == 20240930
UnitScale == 1000

\* ee.List.sequence(2023, 2024)
Years == [i \in 1..(EndYear - StartYear + 1) |-> StartYear + i - 1]

-----------------------------------------------------------------------------
(* Pixel values: exact rationals n/d (d > 0, lowest terms), or masked/null *)

Abs(x) == IF x < 0 THEN -x ELSE x

RECURSIVE GCD(_, _)
GCD(a, b) == IF b = 0 THEN a ELSE GCD(b, a % b)

Masked == [ok |-> FALSE, n |-> 0, d |-> 1]

V(n, d) ==
    LET g == GCD(Abs(n), d)
    IN  [ok |-> TRUE, n |-> n \div g, d |-> d \div g]

Num(k) == V(k, 1)

RAdd(a, b) == V(a.n * b.d + b.n * a.d, a.d * b.d)
RSub(a, b) == V(a.n * b.d - b.n * a.d, a.d * b.d)
RMul(a, b) == V(a.n * b.n, a.d * b.d)
RDiv(a, b) == IF b.n > 0 THEN V(a.n * b.d, a.d * b.n) ELSE V(-(a.n * b.d), a.d * (-b.n))
RLe(a, b) == a.n * b.d <= b.n * a.d

RECURSIVE RSum(_)
RSum(s) == IF s = <<>> THEN Num(0) ELSE RAdd(Head(s), RSum(Tail(s)))

RMean(s) == RDiv(RSum(s), Num(Len(s)))

RECURSIVE Insert(_, _)
Insert(s, v) ==
    IF s = <<>> THEN <<v>>
    ELSE IF RLe(v, Head(s)) THEN <<v>> \o s
    ELSE <<Head(s)>> \o Insert(Tail(s), v)

RECURSIVE Sort(_)
Sort(s) == IF s = <<>> THEN <<>> ELSE Insert(Sort(Tail(s)), Head(s))

\* ee.Reducer.median(): the middle value, the mean of the two middle ones
RMedian(s) ==
    LET t == Sort(s)
        n == Len(t)
    IN  IF n % 2 = 1 THEN t[(n + 1) \div 2]
        ELSE RDiv(RAdd(t[n \div 2], t[n \div 2 + 1]), Num(2))

\* ee.Reducer.percentile([95]): the value at rank ceil(95 n / 100)
RPercentile95(s) ==
    LET t == Sort(s)
    IN  t[(95 * Len(t) + 99) \div 100]

-----------------------------------------------------------------------------
(* Images *)

PropNames == {"year", "system:time_start", "system:time_end",
              "num_images_in_composite", "has_data_in_polygons", "error_message"}

None == [has |-> FALSE, v |-> 0]
Some(x) == [has |-> TRUE, v |-> x]
NoProps == [k \in PropNames |-> None]

\* the band-name lists yearlyNDVI records on its composites
DiagNames == {"composite_band_names_pre_clip", "base_image_band_names",
              "final_image_band_names"}
NoDiag == [k \in DiagNames |-> <<>>]

\* an image whose evaluation raises an error
ErrorImage == [err |-> TRUE, bands |-> <<>>, data |-> <<>>, props |-> NoProps, diag |-> NoDiag]

\* an image with no bands
NoBands == [err |-> FALSE, bands |-> <<>>, data |-> <<>>, props |-> NoProps, diag |-> NoDiag]

\* ee.Image.constant(k): one band 'constant', k at every pixel
Constant(k) ==
    [err |-> FALSE, bands |-> <<"constant">>,
     data |-> <<[p \in Pixels |-> Num(k)]>>, props |-> NoProps, diag |-> NoDiag]

\* image.mask(m): the image's pixels are valid only where m is non-zero
UpdateMask(img, m) ==
    [img EXCEPT !.data = [b \in 1..Len(img.data) |->
        [p \in Pixels |-> IF m.data[1][p].ok /\ m.data[1][p].n # 0
                          THEN img.data[b][p] ELSE Masked]]]

\* ee.Image(): Image(0) masked by Image(0), one fully masked band 'constant'
EmptyImage == UpdateMask(Constant(0), Constant(0))

HasBand(img, name) == \E b \in 1..Len(img.bands) : img.bands[b] = name

BandIndex(img, name) == CHOOSE b \in 1..Len(img.bands) : img.bands[b] = name

\* image.rename(name): one name needs exactly one band
Rename(img, name) ==
    IF img.err \/ Len(img.bands) # 1 THEN ErrorImage
    ELSE [img EXCEPT !.bands = <<name>>]

\* image.select(name): the named band alone; an error when it is absent
Select(img, name) ==
    IF img.err \/ ~HasBand(img, name) THEN ErrorImage
    ELSE [img EXCEPT !.bands = <<name>>, !.data = <<img.data[BandIndex(img, name)]>>]

\* image.clip(geometry): pixels outside the geometry are masked
Clip(img, geom) ==
    [img EXCEPT !.data = [b \in 1..Len(img.data) |->
        [p \in Pixels |-> IF p \in geom THEN img.data[b][p] ELSE Masked]]]

\* image.mask(): the mask as an image, 1 where valid and 0 where not,
\* itself valid everywhere
MaskImage(img) ==
    [img EXCEPT !.data = [b \in 1..Len(img.data) |->
        [p \in Pixels |-> IF img.data[b][p].ok THEN Num(1) ELSE Num(0)]]]

\* a variant that fills the masked pixels with 0, whatever k
UnmaskToZero(img, k) ==
    IF img.err THEN img
    ELSE [img EXCEPT !.data = [b \in 1..Len(img.data) |->
            [p \in Pixels |-> IF img.data[b][p].ok THEN img.data[b][p] ELSE Num(0)]]]

\* image.unmask(k): the masked pixels of every band get the value k
Unmask(img, k) ==
    IF img.err THEN img
    ELSE [img EXCEPT !.data = [b \in 1..Len(img.data) |->
            [p \in Pixels |-> IF img.data[b][p].ok THEN img.data[b][p] ELSE Num(k)]]]

\* the no-data value of the exports
NoDataValue == 0 - 9999

\* an export task: Export.image.toDrive({image, description, ...})
ExportTask(description, image) == [description |-> description, image |-> image]

\* image.set(k, x); setting a property of an image that raises, raises
SetProp(img, k, x) == IF img.err THEN img ELSE [img EXCEPT !.props[k] = Some(x)]

SetDiag(img, k, names) == IF img.err THEN img ELSE [img EXCEPT !.diag[k] = names]

-----------------------------------------------------------------------------
(* Collections of frames *)

\* ee.Date.fromYMD(y, m, d), as the number yyyymmdd
FromYMD(y, m, d) == y * 10000 + m * 100 + d

\* collection.filterDate(start, end): start inclusive, end exclusive
FilterDate(coll, start, end) == {f \in coll : start <= f.date /\ f.date < end}

RECURSIVE SetToSeq(_)
SetToSeq(S) ==
    IF S = {} THEN <<>>
    ELSE LET x == CHOOSE y \in S : TRUE IN <<x>> \o SetToSeq(S \ {x})

RECURSIVE ValidAt(_, _)
ValidAt(s, p) ==
    IF s = <<>> THEN <<>>
    ELSE IF Head(s).px[p].ok THEN <<Head(s).px[p]>> \o ValidAt(Tail(s), p)
    ELSE ValidAt(Tail(s), p)

\* a variant whose sum leaves out the negative values
ReduceValuesPositiveSum(reducer, vals) ==
    IF vals = <<>> THEN Masked
    ELSE IF reducer = "median" THEN RMedian(vals)
    ELSE IF reducer = "p95" THEN RPercentile95(vals)
    ELSE IF reducer = "sum"
    THEN RSum([i \in 1..Len(vals) |-> IF vals[i].n < 0 THEN Num(0) ELSE vals[i]])
    ELSE RMean(vals)

ReduceValues(reducer, vals) ==
    IF vals = <<>> THEN Masked
    ELSE IF reducer = "median" THEN RMedian(vals)
    ELSE IF reducer = "p95" THEN RPercentile95(vals)
    ELSE IF reducer = "sum" THEN RSum(vals)
    ELSE RMean(vals)

\* collection.select(band).reduce(reducer): per pixel over the frames that
\* are valid there; the band is named band_reducer.  An empty collection
\* reduces to an image with no bands; a frame of the collection that has
\* not the band makes the reduction raise.
ReduceCollection(coll, band, reducer) ==
    IF coll = {} THEN NoBands
    ELSE IF \E f \in coll : ~f.hasBand THEN ErrorImage
    ELSE [err |-> FALSE, bands |-> <<band \o "_" \o reducer>>,
          data |-> <<[p \in Pixels |-> ReduceValues(reducer, ValidAt(SetToSeq(coll), p))]>>,
          props |-> NoProps, diag |-> NoDiag]

\* image.reduceRegion(ee.Reducer.count(), geometry).get(band): the number
\* of valid pixels of the band inside the geometry
CountRegion(img, band, geom) ==
    Cardinality({p \in geom : img.data[BandIndex(img, band)][p].ok})

\* image.reduceRegion(ee.Reducer.mean(), geometry).get(band): the mean of
\* the valid pixels inside the geometry, null when there is none
RECURSIVE RasterValues(_, _)
RasterValues(r, S) ==
    IF S = {} THEN <<>>
    ELSE LET p == CHOOSE q \in S : TRUE
         IN  <<r[p]>> \o RasterValues(r, S \ {p})

\* a variant that answers 0 for a region without a valid pixel
MeanRegionZeroWhenEmpty(img, band, geom) ==
    LET r == img.data[BandIndex(img, band)]
        valid == {p \in geom : r[p].ok}
    IN  IF valid = {} THEN Num(0) ELSE RMean(RasterValues(r, valid))

MeanRegion(img, band, geom) ==
    LET r == img.data[BandIndex(img, band)]
        valid == {p \in geom : r[p].ok}
    IN  IF valid = {} THEN Masked ELSE RMean(RasterValues(r, valid))

-----------------------------------------------------------------------------
(* The study area *)

RECURSIVE UnionGeoms(_)
UnionGeoms(fs) == IF fs = <<>> THEN {} ELSE Head(fs).geom \cup UnionGeoms(Tail(fs))

\* polygons.geometry(): the union of the features' geometries
StudyArea == UnionGeoms(polygons)

\* the collection after the script's overall filterDate
SourceCollection == FilterDate(frames, OverallStart, OverallEnd)

-----------------------------------------------------------------------------
(* 4. Annual RVI composites (Sentinel-1) *)

RviStart(year) == FromYMD(year, SeasonStartMonth, SeasonStartDay)
RviEnd(year) == FromYMD(year, SeasonEndMonth, SeasonEndDay)

\* a variant whose window starts at the overall start for every year
RviCollectionForYearFromOverallStart(year) ==
    FilterDate(SourceCollection, OverallStart, RviEnd(year))

RviCollectionForYear(year) == FilterDate(SourceCollection, RviStart(year), RviEnd(year))

RviDefaultImage(year) ==
    Clip(SetProp(Rename(Constant(0), "RVI"), "system:time_start", RviStart(year)),
         StudyArea)

\* ee.Algorithms.If(numImagesInYear.gt(0), composite.clip(studyArea), defaultImage)
RviFinalResultImage(year) ==
    LET collectionForYear == RviCollectionForYear(year)
        numImagesInYear == Cardinality(collectionForYear)
        composite == Rename(ReduceCollection(collectionForYear, "RVI", "median"), "RVI")
    IN  IF numImagesInYear > 0 THEN Clip(composite, StudyArea)
        ELSE RviDefaultImage(year)

\* a variant that records the frame count only on a composite made of frames
RviPropsCountOnlyWithFrames(img, year, n) ==
    LET tagged == SetProp(SetProp(SetProp(img,
            "year", year),
            "system:time_start", RviStart(year)),
            "system:time_end", RviEnd(year))
    IN  IF n > 0 THEN SetProp(tagged, "num_images_in_composite", n) ELSE tagged

RviProps(img, year, n) ==
    SetProp(SetProp(SetProp(SetProp(img,
        "year", year),
        "system:time_start", RviStart(year)),
        "system:time_end", RviEnd(year)),
        "num_images_in_composite", n)

YearlyRVIImage(year) ==
    RviProps(RviFinalResultImage(year), year, Cardinality(RviCollectionForYear(year)))

-----------------------------------------------------------------------------
(* 4. Annual NDVI composites (Sentinel-2) *)

NdviStart(year) == FromYMD(year, SeasonStartMonth, SeasonStartDay)
NdviEnd(year) == FromYMD(year, NdviSeasonEndMonth, NdviSeasonEndDay)

NdviCollectionForYear(year) == FilterDate(SourceCollection, NdviStart(year), NdviEnd(year))

\* the percentile band renamed to 'NDVI' when it exists, else ee.Image()
NdviComposite(year) ==
    LET tempComposite == ReduceCollection(NdviCollectionForYear(year), "NDVI", "p95")
    IN  IF tempComposite.err THEN ErrorImage
        ELSE IF HasBand(tempComposite, "NDVI_p95")
        THEN Rename(Select(tempComposite, "NDVI_p95"), "NDVI")
        ELSE EmptyImage

NdviDefaultImage(year) ==
    Clip(SetProp(SetProp(Rename(Constant(0), "NDVI"),
            "system:time_start", NdviStart(year)),
            "system:time_end", NdviEnd(year)),
         StudyArea)

NdviBaseImage(year) ==
    LET composite == NdviComposite(year)
        compositeHasBands == Len(composite.bands) > 0
    IN  IF composite.err THEN ErrorImage
        ELSE IF compositeHasBands THEN Clip(composite, StudyArea)
        ELSE NdviDefaultImage(year)

\* countDict, hasKey, hasUnmaskedPixels: the count reducer over the mask
\* image of baseImage inside the study area
NdviHasUnmaskedPixels(baseImage) ==
    IF HasBand(baseImage, "NDVI")
    THEN CountRegion(MaskImage(baseImage), "NDVI", StudyArea)
    ELSE 0

\* a variant that asks for any band instead of the 'NDVI' band
NdviResultHasDataAnyBand(baseImage) == Len(baseImage.bands) > 0

NdviResultHasData(baseImage) == NdviHasUnmaskedPixels(baseImage) > 0

\* a variant that returns baseImage whatever it holds
NdviFinalResultImageWithoutFallback(year) == NdviBaseImage(year)

NdviFinalResultImage(year) ==
    LET baseImage == NdviBaseImage(year)
    IN  IF baseImage.err THEN ErrorImage
        ELSE IF NdviResultHasData(baseImage) THEN baseImage
        ELSE NdviDefaultImage(year)

NdviProps(img, year, n, resultHasData) ==
    SetProp(SetProp(SetProp(SetProp(SetProp(img,
        "year", year),
        "system:time_start", NdviStart(year)),
        "system:time_end", NdviEnd(year)),
        "num_images_in_composite", n),
        "has_data_in_polygons", IF resultHasData THEN 1 ELSE 0)

YearlyNDVIImage(year) ==
    LET final == NdviFinalResultImage(year)
        tagged == NdviProps(final, year, Cardinality(NdviCollectionForYear(year)),
                            NdviResultHasData(NdviBaseImage(year)))
    IN  SetDiag(SetDiag(SetDiag(tagged,
            "composite_band_names_pre_clip", NdviComposite(year).bands),
            "base_image_band_names", NdviBaseImage(year).bands),
            "final_image_band_names", final.bands)

-----------------------------------------------------------------------------
(* years.map(...): one composite per entry of the list of years *)

\* the steps of the yearlyRVI map function: filterDate, reduce(median),
\* then the choice on numImagesInYear and the properties
RviStages == <<"RAW_FRAMES_FILTERED", "AGGREGATED", "FINALIZED">>

\* the steps of the yearlyNDVI map function: filterDate, reduce(p95),
\* compositeHasBands, hasUnmaskedPixels, then the choice and the properties
NdviStages == <<"RAW_FRAMES_FILTERED", "AGGREGATED", "BAND_PRESENCE_CHECKED",
                "DATA_PRESENCE_CHECKED", "FINALIZED">>

YearlyRVI ==
    /\ script = "RVI"
    /\ yearIdx < Len(Years)
    /\ yearIdx' = yearIdx + 1
    /\ yearly' = Append(yearly, YearlyRVIImage(Years[yearIdx + 1]))
    /\ stages' = Append(stages, RviStages)
    /\ UNCHANGED <<script, frames, polygons, polyRows, anomalies, checks,
                   trend, stats, table, exports, charts>>

\* a variant that returns nothing for a year without frames
YearlyNDVISkippingEmptyYears ==
    /\ script = "NDVI"
    /\ yearIdx < Len(Years)
    /\ yearIdx' = yearIdx + 1
    /\ yearly' = IF NdviCollectionForYear(Years[yearIdx + 1]) = {} THEN yearly
                 ELSE Append(yearly, YearlyNDVIImage(Years[yearIdx + 1]))
    /\ stages' = Append(stages, NdviStages)
    /\ UNCHANGED <<script, frames, polygons, polyRows, anomalies, checks,
                   trend, stats, table, exports, charts>>

YearlyNDVI ==
    /\ script = "NDVI"
    /\ yearIdx < Len(Years)
    /\ yearIdx' = yearIdx + 1
    /\ yearly' = Append(yearly, YearlyNDVIImage(Years[yearIdx + 1]))
    /\ stages' = Append(stages, NdviStages)
    /\ UNCHANGED <<script, frames, polygons, polyRows, anomalies, checks,
                   trend, stats, table, exports, charts>>

-----------------------------------------------------------------------------
(* 7.2 / 8. Per-polygon trend statistics *)

\* a variant that fits a line through the origin
LinearFitThroughOrigin(points) ==
    LET sxx == RSum([i \in 1..Len(points) |-> RMul(points[i].x, points[i].x)])
        sxy == RSum([i \in 1..Len(points) |-> RMul(points[i].x, points[i].y)])
    IN  IF sxx.n = 0 THEN [scale |-> Masked, offset |-> Masked]
        ELSE [scale |-> RDiv(sxy, sxx), offset |-> Num(0)]

\* ee.Reducer.linearFit() over (x, y) pairs: least squares
\* y = scale * x + offset
LinearFit(points) ==
    LET n == Num(Len(points))
        sx == RSum([i \in 1..Len(points) |-> points[i].x])
        sy == RSum([i \in 1..Len(points) |-> points[i].y])
        sxx == RSum([i \in 1..Len(points) |-> RMul(points[i].x, points[i].x)])
        sxy == RSum([i \in 1..Len(points) |-> RMul(points[i].x, points[i].y)])
        den == RSub(RMul(n, sxx), RMul(sx, sx))
        scale == RDiv(RSub(RMul(n, sxy), RMul(sx, sy)), den)
    IN  IF den.n = 0 THEN [scale |-> Masked, offset |-> Masked]
        ELSE [scale |-> scale, offset |-> RDiv(RSub(sy, RMul(scale, sx)), n)]

\* ee.Dictionary({scale: null, offset: null})
DefaultFit == [scale |-> Masked, offset |-> Masked]

\* the (year, mean of the band inside the polygon) feature of each composite
RECURSIVE SeriesOf(_, _, _)
SeriesOf(images, band, geom) ==
    IF images = <<>> THEN <<>>
    ELSE <<[x |-> IF Head(images).props["year"].has
                  THEN Num(Head(images).props["year"].v) ELSE Masked,
            y |-> MeanRegion(Select(Head(images), band), band, geom)]>>
         \o SeriesOf(Tail(images), band, geom)

\* a variant that keeps the null points
NotNullKeepingAll(series) == series

\* .filter(ee.Filter.notNull(['year', y]))
RECURSIVE NotNull(_)
NotNull(series) ==
    IF series = <<>> THEN <<>>
    ELSE IF Head(series).x.ok /\ Head(series).y.ok
         THEN <<Head(series)>> \o NotNull(Tail(series))
         ELSE NotNull(Tail(series))

\* a variant whose default fit is 0 instead of null
TrendStatsZeroDefault(series) ==
    IF Len(series) >= 2 THEN LinearFit(series)
    ELSE [scale |-> Num(0), offset |-> Num(0)]

\* ee.Algorithms.If(seriesSize.gte(2), reduceColumns(linearFit), defaultFit)
TrendStats(series) ==
    IF Len(series) >= 2 THEN LinearFit(series) ELSE DefaultFit

NotDone == [done |-> FALSE, err |-> FALSE, polygon_id_prop |-> "",
            slope |-> Masked, offset |-> Masked, trend_points_used |-> 0]

\* a value taken as a condition: null and the empty string are false
Truthy(prop) == prop.has /\ prop.v # ""

\* polygonId: the 'Name' property when it is set, else feature.id()
PolygonId(feature) ==
    IF Truthy(feature.props["Name"]) THEN feature.props["Name"].v ELSE feature.id

\* calculatePolygonTrend: the properties set on the polygon feature
PolygonTrendRow(band, feature) ==
    IF \E k \in 1..Len(yearly) : ~HasBand(yearly[k], band)
    THEN [NotDone EXCEPT !.done = TRUE, !.err = TRUE]
    ELSE LET perPolygonTimeSeries == NotNull(SeriesOf(yearly, band, feature.geom))
             seriesSize == Len(perPolygonTimeSeries)
             trendStats == TrendStats(perPolygonTimeSeries)
         IN  [done |-> TRUE, err |-> FALSE,
              polygon_id_prop |-> PolygonId(feature),
              slope |-> trendStats.scale, offset |-> trendStats.offset,
              trend_points_used |-> seriesSize]

\* polygons.map(calculatePolygonTrend): the polygons in any order
RviCalculatePolygonTrend ==
    /\ script = "RVI"
    /\ yearIdx = Len(Years)
    /\ trend.done
    /\ \E i \in 1..Len(polygons) :
          /\ ~polyRows[i].done
          /\ polyRows' = [polyRows EXCEPT ![i] = PolygonTrendRow("RVI", polygons[i])]
    /\ UNCHANGED <<script, frames, polygons, yearIdx, yearly, anomalies, checks,
                   stages, trend, stats, table, exports, charts>>

NdviCalculatePolygonTrend ==
    /\ script = "NDVI"
    /\ yearIdx = Len(Years)
    /\ stats.done
    /\ \E i \in 1..Len(polygons) :
          /\ ~polyRows[i].done
          /\ polyRows' = [polyRows EXCEPT ![i] = PolygonTrendRow("NDVI", polygons[i])]
    /\ UNCHANGED <<script, frames, polygons, yearIdx, yearly, anomalies, checks,
                   stages, trend, stats, table, exports, charts>>

-----------------------------------------------------------------------------
(* The artifacts the scripts build after the composites *)

NotComputed == [done |-> FALSE, image |-> NoBands]

NoStats == [done |-> FALSE, err |-> FALSE, rows |-> <<>>]

NoTable == [done |-> FALSE, err |-> FALSE, columns |-> <<>>, rows |-> <<>>]

NoCharts == [done |-> FALSE, titles |-> <<>>]

-----------------------------------------------------------------------------
(* 6. The pixel-wise trend *)

\* the (x, y) inputs of the reducer at a pixel: x the year of a composite,
\* y its band value; a composite masked at the pixel gives no input
RECURSIVE PixelSeries(_, _, _)
PixelSeries(images, band, p) ==
    IF images = <<>> THEN <<>>
    ELSE LET y == Head(images).data[BandIndex(Head(images), band)][p]
         IN  (IF y.ok THEN <<[x |-> Num(Head(images).props["year"].v), y |-> y]>>
              ELSE <<>>)
             \o PixelSeries(Tail(images), band, p)

\* a variant that answers 0 where the fit is underdetermined
PixelFitZeroWhenUnderdetermined(points) ==
    IF Len(points) < 2 THEN [scale |-> Num(0), offset |-> Num(0)]
    ELSE LinearFit(points)

\* ee.Reducer.linearFit() at one pixel: null outputs where the inputs do
\* not determine a line
PixelFit(points) == LinearFit(points)

\* collection.map(x = year, y = band).reduce(ee.Reducer.linearFit()):
\* bands 'scale' and 'offset'
LinearFitImage(images, band) ==
    IF \E k \in 1..Len(images) :
          images[k].err \/ ~HasBand(images[k], band) \/ ~images[k].props["year"].has
    THEN ErrorImage
    ELSE IF images = <<>> THEN NoBands
    ELSE [err |-> FALSE, bands |-> <<"scale", "offset">>,
          data |-> <<[p \in Pixels |-> PixelFit(PixelSeries(images, band, p)).scale],
                     [p \in Pixels |-> PixelFit(PixelSeries(images, band, p)).offset]>>,
          props |-> NoProps, diag |-> NoDiag]

\* rviTrend
RviTrendImage == Clip(LinearFitImage(yearly, "RVI"), StudyArea)

\* clippedNdviTrend: the fit clipped when it has a 'scale' band, else a
\* constant 0 named 'scale'
ClippedNdviTrend ==
    LET ndviTrend == LinearFitImage(yearly, "NDVI")
    IN  IF ndviTrend.err THEN ErrorImage
        ELSE IF HasBand(ndviTrend, "scale") THEN Clip(ndviTrend, StudyArea)
        ELSE Clip(Rename(Constant(0), "scale"), StudyArea)

ComputeRviTrend ==
    /\ script = "RVI"
    /\ yearIdx = Len(Years)
    /\ ~trend.done
    /\ trend' = [done |-> TRUE, image |-> RviTrendImage]
    /\ UNCHANGED <<script, frames, polygons, yearIdx, yearly, polyRows, anomalies,
                   checks, stages, stats, table, exports, charts>>

ComputeNdviTrend ==
    /\ script = "NDVI"
    /\ yearIdx = Len(Years)
    /\ ~trend.done
    /\ trend' = [done |-> TRUE, image |-> ClippedNdviTrend]
    /\ UNCHANGED <<script, frames, polygons, yearIdx, yearly, polyRows, anomalies,
                   checks, stages, stats, table, exports, charts>>

-----------------------------------------------------------------------------
(* 7. NDVI per polygon: mean statistics *)

\* a variant whose features all carry the year of the last composite
NdviStatsRowsSharedYear ==
    [n \in 1..(Len(yearly) * Len(polygons)) |->
        LET k == ((n - 1) \div Len(polygons)) + 1
            i == ((n - 1) % Len(polygons)) + 1
        IN  [year |-> yearly[Len(yearly)].props["year"].v, polygon |-> i,
             mean |-> MeanRegion(Select(yearly[k], "NDVI"), "NDVI", polygons[i].geom)]]

\* image.select('NDVI').reduceRegions(polygons, mean) with the year set on
\* each feature, flattened: one feature per (composite, polygon); 'mean' is
\* null where the polygon has no valid pixel
NdviStatsRows ==
    [n \in 1..(Len(yearly) * Len(polygons)) |->
        LET k == ((n - 1) \div Len(polygons)) + 1
            i == ((n - 1) % Len(polygons)) + 1
        IN  [year |-> yearly[k].props["year"].v, polygon |-> i,
             mean |-> MeanRegion(Select(yearly[k], "NDVI"), "NDVI", polygons[i].geom)]]

\* ndviStats: the collection raises when the map raises for one composite
NdviStats ==
    IF \E k \in 1..Len(yearly) : yearly[k].err \/ ~HasBand(yearly[k], "NDVI")
    THEN [done |-> TRUE, err |-> TRUE, rows |-> <<>>]
    ELSE [done |-> TRUE, err |-> FALSE, rows |-> NdviStatsRows]

ComputeNdviStats ==
    /\ script = "NDVI"
    /\ trend.done
    /\ ~stats.done
    /\ stats' = NdviStats
    /\ UNCHANGED <<script, frames, polygons, yearIdx, yearly, polyRows, anomalies,
                   checks, stages, trend, table, exports, charts>>

-----------------------------------------------------------------------------
(* 8. Exports *)

\* selectors of Export.table.toDrive
Selectors(band) ==
    <<"polygon_id_prop", band \o "_slope", band \o "_offset", "trend_points_used">>

\* a variant that leaves out the polygons without a fitted trend
TableRowsDroppingUndefined ==
    SelectSeq([i \in 1..Len(polygons) |->
                  [polygon_id_prop |-> polyRows[i].polygon_id_prop,
                   slope |-> polyRows[i].slope, offset |-> polyRows[i].offset,
                   trend_points_used |-> polyRows[i].trend_points_used]],
              LAMBDA r : r.slope.ok)

\* the rows of the exported table: one per feature of
\* polygonsWithTrendStats, with the selected properties
TableRows ==
    [i \in 1..Len(polygons) |->
        [polygon_id_prop |-> polyRows[i].polygon_id_prop,
         slope |-> polyRows[i].slope, offset |-> polyRows[i].offset,
         trend_points_used |-> polyRows[i].trend_points_used]]

\* Export.table.toDrive({collection: polygonsWithTrendStats, selectors})
ExportTable(band) ==
    IF \E i \in 1..Len(polygons) : polyRows[i].err
    THEN [done |-> TRUE, err |-> TRUE, columns |-> Selectors(band), rows |-> <<>>]
    ELSE [done |-> TRUE, err |-> FALSE, columns |-> Selectors(band), rows |-> TableRows]

\* collection.filter(ee.Filter.eq('year', year)).first()
FirstOfYear(images, year) ==
    IF \E k \in 1..Len(images) : images[k].err THEN ErrorImage
    ELSE IF \E k \in 1..Len(images) : images[k].props["year"] = Some(year)
    THEN images[CHOOSE k \in 1..Len(images) :
                   /\ images[k].props["year"] = Some(year)
                   /\ \A j \in 1..(k - 1) : images[j].props["year"] # Some(year)]
    ELSE ErrorImage

\* 8.1, 8.2: the composites as they are, the slope unmasked to -9999
RviExports ==
    <<ExportTask("RVI_Composite_2023", FirstOfYear(yearly, 2023)),
      ExportTask("RVI_Composite_2024", FirstOfYear(yearly, 2024)),
      ExportTask("RVI_Trend_Slope_2023-2024",
                 Unmask(Select(trend.image, "scale"), NoDataValue))>>

\* exportNDVI(year): the client-side test is on server objects, which are
\* always truthy, so the export branch is always taken
ExportNDVI(year) ==
    ExportTask("NDVI_SpringSummer_" \o ToString(year),
               Unmask(Select(FirstOfYear(yearly, year), "NDVI"), NoDataValue))

NdviExports ==
    <<ExportNDVI(2023), ExportNDVI(2024),
      ExportTask("NDVI_Trend_Slope_SpringSummer",
                 Unmask(Select(trend.image, "scale"), NoDataValue))>>

AllPolygonsDone == \A i \in 1..Len(polygons) : polyRows[i].done

RviExportImages ==
    /\ script = "RVI"
    /\ AllPolygonsDone
    /\ exports = <<>>
    /\ exports' = RviExports
    /\ UNCHANGED <<script, frames, polygons, yearIdx, yearly, polyRows, anomalies,
                   checks, stages, trend, stats, table, charts>>

RviExportTable ==
    /\ script = "RVI"
    /\ exports # <<>>
    /\ ~table.done
    /\ table' = ExportTable("RVI")
    /\ UNCHANGED <<script, frames, polygons, yearIdx, yearly, polyRows, anomalies,
                   checks, stages, trend, stats, exports, charts>>

NdviExportTable ==
    /\ script = "NDVI"
    /\ AllPolygonsDone
    /\ ~table.done
    /\ table' = ExportTable("NDVI")
    /\ UNCHANGED <<script, frames, polygons, yearIdx, yearly, polyRows, anomalies,
                   checks, stages, trend, stats, exports, charts>>

NdviExportImages ==
    /\ script = "NDVI"
    /\ table.done
    /\ exports = <<>>
    /\ exports' = NdviExports
    /\ UNCHANGED <<script, frames, polygons, yearIdx, yearly, polyRows, anomalies,
                   checks, stages, trend, stats, table, charts>>

-----------------------------------------------------------------------------
(* 7.3 / 9.2 The per-polygon charts, titled on the client *)

\* polygonIdentifierClient of the RVI script
RviPolygonIdentifierClient(feature) ==
    IF Truthy(feature.props["Name"]) THEN feature.props["Name"].v
    ELSE "Polygon " \o feature.id

\* polygonIdentifierClient of the NDVI script; index counts from 0
NdviPolygonIdentifierClient(feature, index) ==
    IF Truthy(feature.props["ID"]) THEN feature.props["ID"].v
    ELSE IF Truthy(feature.props["Name"]) THEN feature.props["Name"].v
    ELSE IF Truthy(feature.props["PolygonID"]) THEN feature.props["PolygonID"].v
    ELSE IF Truthy(feature.props["polygon_id_prop"])
    THEN feature.props["polygon_id_prop"].v
    ELSE IF feature.id # "" THEN feature.id
    ELSE "Polygon (Index " \o ToString(index) \o ")"

\* polygons.evaluate(callback): the callback runs when the client has the
\* features, after the rest of the script
RviCharts ==
    /\ script = "RVI"
    /\ table.done
    /\ ~charts.done
    /\ charts' = [done |-> TRUE,
                  titles |-> [i \in 1..Len(polygons) |->
                      "RVI Trend - ID: " \o RviPolygonIdentifierClient(polygons[i])]]
    /\ UNCHANGED <<script, frames, polygons, yearIdx, yearly, polyRows, anomalies,
                   checks, stages, trend, stats, table, exports>>

NdviCharts ==
    /\ script = "NDVI"
    /\ exports # <<>>
    /\ ~charts.done
    /\ charts' = [done |-> TRUE,
                  titles |-> [i \in 1..Len(polygons) |->
                      "NDVI Trend - ID: " \o NdviPolygonIdentifierClient(polygons[i], i - 1)]]
    /\ UNCHANGED <<script, frames, polygons, yearIdx, yearly, polyRows, anomalies,
                   checks, stages, trend, stats, table, exports>>

-----------------------------------------------------------------------------
(* The inputs: the frames of the dataset and the polygons of the asset *)

NumPolygons == 2

PixelValues == {Masked} \cup {Num(k) : k \in 0..MaxVal}

Rasters == [Pixels -> PixelValues]

RECURSIVE SubsetsUpTo(_, _)
SubsetsUpTo(T, k) ==
    IF k = 0 THEN {{}}
    ELSE LET prev == SubsetsUpTo(T, k - 1)
         IN  prev \cup {s \cup {x} : s \in prev, x \in T}

CompositeDates ==
    {FromYMD(y, md[1], md[2]) :
        y \in StartYear..EndYear,
        md \in {<<SeasonStartMonth, SeasonStartDay>>,
                <<NdviSeasonEndMonth, NdviSeasonEndDay>>,
                <<SeasonEndMonth, SeasonEndDay>>}}

CompositeFrames == [date : CompositeDates, px : Rasters, hasBand : {TRUE}]

\* the properties of a feature that the scripts read
FeaturePropNames == {"Name", "ID", "PolygonID", "polygon_id_prop"}

Absent == [has |-> FALSE, v |-> ""]
Present(x) == [has |-> TRUE, v |-> x]
NoFeatureProps == [k \in FeaturePropNames |-> Absent]

\* feature.id(): the system:index of the i-th feature of the asset
FeatureId(i) == ToString(i - 1)

\* the first polygon is the first pixel; the others are any non-empty sets
PolygonLayouts ==
    {[i \in 1..NumPolygons |->
         [geom |-> g[i], id |-> FeatureId(i), props |-> NoFeatureProps]] :
        g \in {h \in [1..NumPolygons -> (SUBSET Pixels) \ {{}}] : h[1] = {1}}}

InitComposite ==
    /\ script \in {"RVI", "NDVI"}
    /\ frames \in SubsetsUpTo(CompositeFrames, MaxFrames)
    /\ polygons \in PolygonLayouts
    /\ yearIdx = 0
    /\ yearly = <<>>
    /\ polyRows = [i \in 1..Len(polygons) |-> NotDone]
    /\ anomalies = <<>>
    /\ checks = <<>>
    /\ stages = <<>>
    /\ trend = NotComputed
    /\ stats = NoStats
    /\ table = NoTable
    /\ exports = <<>>
    /\ charts = NoCharts

NextComposite ==
    \/ YearlyRVI
    \/ YearlyNDVI
    \/ ComputeRviTrend
    \/ ComputeNdviTrend
    \/ ComputeNdviStats
    \/ RviCalculatePolygonTrend
    \/ NdviCalculatePolygonTrend
    \/ RviExportImages
    \/ RviExportTable
    \/ NdviExportTable
    \/ NdviExportImages
    \/ RviCharts
    \/ NdviCharts

SpecComposite == InitComposite /\ [][NextComposite]_vars

\* frames of a dataset whose images have not the bands the index is made of
BandlessFrames ==
    [date : CompositeDates, px : {[p \in Pixels |-> Masked]}, hasBand : {FALSE}]

\* the composite scripts over a dataset with at least one such frame
InitFatal ==
    /\ script \in {"RVI", "NDVI"}
    /\ frames \in {fs \in SubsetsUpTo(CompositeFrames \cup BandlessFrames, MaxFrames) :
                      \E f \in fs : ~f.hasBand}
    /\ polygons \in PolygonLayouts
    /\ yearIdx = 0
    /\ yearly = <<>>
    /\ polyRows = [i \in 1..Len(polygons) |-> NotDone]
    /\ anomalies = <<>>
    /\ checks = <<>>
    /\ stages = <<>>
    /\ trend = NotComputed
    /\ stats = NoStats
    /\ table = NoTable
    /\ exports = <<>>
    /\ charts = NoCharts

SpecFatal == InitFatal /\ [][NextComposite]_vars

\* the properties an asset's feature may carry: 'Name' absent, empty or
\* set, the other identifier properties absent or set
FeatureProps(i) ==
    {[k \in FeaturePropNames |-> pr[k]] :
        pr \in [Name : {Absent, Present(""), Present("Stand " \o ToString(i))},
                ID : {Absent, Present("ID-" \o ToString(i))},
                PolygonID : {Absent, Present("PID-" \o ToString(i))},
                polygon_id_prop : {Absent, Present("prop-" \o ToString(i))}]}

\* the polygons of the asset with any such properties
IdentifiedPolygons ==
    {[i \in 1..NumPolygons |->
         [geom |-> {((i - 1) % NumPixels) + 1}, id |-> FeatureId(i), props |-> pr[i]]] :
        pr \in {q \in [1..NumPolygons -> UNION {FeatureProps(i) : i \in 1..NumPolygons}] :
                   \A i \in 1..NumPolygons : q[i] \in FeatureProps(i)}}

\* the composite scripts over an asset whose features carry properties
InitIdentifiers ==
    /\ script \in {"RVI", "NDVI"}
    /\ frames = {}
    /\ polygons \in IdentifiedPolygons
    /\ yearIdx = 0
    /\ yearly = <<>>
    /\ polyRows = [i \in 1..Len(polygons) |-> NotDone]
    /\ anomalies = <<>>
    /\ checks = <<>>
    /\ stages = <<>>
    /\ trend = NotComputed
    /\ stats = NoStats
    /\ table = NoTable
    /\ exports = <<>>
    /\ charts = NoCharts

SpecIdentifiers == InitIdentifiers /\ [][NextComposite]_vars

-----------------------------------------------------------------------------
(* Seasonal anomalies: CHIRPS, ERA5-Land, GRIDMET *)

BaselineStartYear == 1981
BaselineEndYear == 2022
GridmetBaselineStartYear == 2010

\* analysisYears / targetYears of the three scripts
ChirpsAnalysisYears == <<2023, 2024>>
Era5AnalysisYears == <<2022, 2023>>
GridmetTargetYears == <<2023, 2024>>

\* the (band, reducer) pairs calculateAnomaly is called with for each year
GridmetVariables ==
    <<[band |-> "pr", reducer |-> "sum", name |-> "Precipitation", units |-> "mm"],
      [band |-> "tmmx", reducer |-> "mean", name |-> "MaxTemperature", units |-> "C"],
      [band |-> "etr", reducer |-> "sum", name |-> "Evapotranspiration", units |-> "mm"]>>

SeasonStart(y) == FromYMD(y, SeasonStartMonth, SeasonStartDay)
SeasonEnd(y) == FromYMD(y, SeasonEndMonth, SeasonEndDay)

\* image arithmetic with a number, band by band; a masked pixel stays masked
Multiply(img, k) ==
    [img EXCEPT !.data = [b \in 1..Len(img.data) |->
        [p \in Pixels |-> IF img.data[b][p].ok
                          THEN RMul(img.data[b][p], Num(k)) ELSE Masked]]]

\* a.subtract(b): bands are paired in order; a single band is used against
\* every band of the other image; the result is masked where either is
Subtract(a, b) ==
    IF a.err \/ b.err THEN ErrorImage
    ELSE IF Len(a.bands) = Len(b.bands) \/ Len(b.bands) = 1
    THEN [a EXCEPT !.data = [i \in 1..Len(a.data) |->
            LET j == IF Len(b.bands) = 1 THEN 1 ELSE i
            IN  [p \in Pixels |-> IF a.data[i][p].ok /\ b.data[j][p].ok
                                  THEN RSub(a.data[i][p], b.data[j][p]) ELSE Masked]]]
    ELSE IF Len(a.bands) = 1
    THEN [b EXCEPT !.data = [j \in 1..Len(b.data) |->
            [p \in Pixels |-> IF a.data[1][p].ok /\ b.data[j][p].ok
                              THEN RSub(a.data[1][p], b.data[j][p]) ELSE Masked]],
                   !.props = a.props]
    ELSE ErrorImage

\* collection.reduce(reducer) with the band name kept (sum(), mean())
ReduceKeepingName(coll, band, reducer) ==
    LET r == ReduceCollection(coll, band, reducer)
    IN  IF Len(r.bands) = 0 THEN r ELSE [r EXCEPT !.bands = <<band>>]

RECURSIVE ValidPixels(_, _)
ValidPixels(images, p) ==
    IF images = <<>> THEN <<>>
    ELSE IF Len(Head(images).bands) = 1 /\ Head(images).data[1][p].ok
         THEN <<Head(images).data[1][p]>> \o ValidPixels(Tail(images), p)
         ELSE ValidPixels(Tail(images), p)

\* ImageCollection.fromImages(images).mean(): bands are matched by name.
\* When some images have the band and others have no band at all, the
\* platform either skips the images without the band (lenient) or refuses
\* the collection as not homogeneous.
MeanOfImages(images, lenient) ==
    LET withBand == {i \in 1..Len(images) : Len(images[i].bands) = 1}
    IN  IF \E i \in 1..Len(images) : images[i].err THEN ErrorImage
        ELSE IF withBand = {} THEN NoBands
        ELSE IF withBand # 1..Len(images) /\ ~lenient THEN ErrorImage
        ELSE [err |-> FALSE,
              bands |-> images[CHOOSE i \in withBand : TRUE].bands,
              data |-> <<[p \in Pixels |->
                          LET vals == ValidPixels(images, p)
                          IN  IF vals = <<>> THEN Masked ELSE RMean(vals)]>>,
              props |-> NoProps, diag |-> NoDiag]

\* baselineSeasonalCollection: one seasonal image per baseline year
BaselineSeasonalCollection(firstYear, band, reducer, scale) ==
    [i \in 1..(BaselineEndYear - firstYear + 1) |->
        LET y == firstYear + i - 1
        IN  SetProp(Multiply(ReduceKeepingName(
                        FilterDate(frames, SeasonStart(y), SeasonEnd(y)), band, reducer),
                        scale),
                    "year", y)]

\* the target year's seasonal value
TargetYearValue(year, band, reducer, scale) ==
    Multiply(ReduceKeepingName(FilterDate(frames, SeasonStart(year), SeasonEnd(year)),
                               band, reducer),
             scale)

\* calculatePrecipAnomaly(year)
PrecipAnomaly(year, lenient) ==
    LET longTermMean == MeanOfImages(
            BaselineSeasonalCollection(BaselineStartYear, "precipitation", "sum", 1), lenient)
        targetYearValue == TargetYearValue(year, "precipitation", "sum", 1)
    IN  Rename(Subtract(targetYearValue, longTermMean), "anomaly")

\* calculateAnomaly(dataset, band, reducer, year, ...)
GridmetAnomaly(band, reducer, year, lenient) ==
    LET longTermMean == MeanOfImages(
            BaselineSeasonalCollection(GridmetBaselineStartYear, band, reducer, 1), lenient)
        targetYearValue == TargetYearValue(year, band, reducer, 1)
    IN  Rename(Subtract(targetYearValue, longTermMean), "anomaly")

\* calculateEvaporationAnomaly(year): the robustness flags
EvaporationBaselineHasImages ==
    Len(BaselineSeasonalCollection(BaselineStartYear, "total_evaporation", "sum", UnitScale)) > 0

EvaporationTargetHasImages(year) ==
    Cardinality(FilterDate(frames, SeasonStart(year), SeasonEnd(year))) > 0

\* a variant that leaves the target total in meters
EvaporationTargetTotalInMeters(year) ==
    TargetYearValue(year, "total_evaporation", "sum", 1)

\* the target total of the evaporation script, converted to mm
EvaporationTargetTotal(year) ==
    TargetYearValue(year, "total_evaporation", "sum", UnitScale)

\* calculateEvaporationAnomaly(year): the image returned
EvaporationAnomaly(year, lenient) ==
    IF EvaporationBaselineHasImages /\ EvaporationTargetHasImages(year)
    THEN Rename(Subtract(EvaporationTargetTotal(year),
                         MeanOfImages(BaselineSeasonalCollection(
                             BaselineStartYear, "total_evaporation", "sum", UnitScale),
                             lenient)),
                "anomaly")
    ELSE SetProp(UpdateMask(Rename(EmptyImage, "anomaly"), Constant(0)),
                 "error_message", year)

\* exportAnomalyImage(image, ...): the image unmasked to the no-data value
ExportAnomalyImage(description, image) ==
    ExportTask(description, Unmask(image, NoDataValue))

\* exportCondition of calculateEvaporationAnomaly: the anomaly has a band
\* and a valid pixel inside arizona
EvaporationExportCondition(anomaly) ==
    /\ ~anomaly.err
    /\ Len(anomaly.bands) > 0
    /\ HasBand(anomaly, "anomaly")
    /\ CountRegion(anomaly, "anomaly", StudyArea) > 0

\* calculateEvaporationAnomaly(year): the export.  Export.image.toDrive is
\* an argument of ee.Algorithms.If, so the client calls it, and the task
\* exists, before the condition is ever looked at.
EvaporationExport(year, anomaly) ==
    ExportTask("Total_Evaporation_Anomaly_" \o ToString(year), Clip(anomaly, StudyArea))

\* analysisYears.forEach: calculatePrecipAnomaly for the next year
CalculatePrecipAnomaly ==
    /\ script = "CHIRPS"
    /\ yearIdx < Len(ChirpsAnalysisYears)
    /\ yearIdx' = yearIdx + 1
    /\ \E lenient \in BOOLEAN :
          anomalies' = Append(anomalies,
              [year |-> ChirpsAnalysisYears[yearIdx + 1], band |-> "precipitation",
               reducer |-> "sum", lenient |-> lenient,
               image |-> PrecipAnomaly(ChirpsAnalysisYears[yearIdx + 1], lenient)])
    /\ exports' = Append(exports, ExportAnomalyImage(
          "Precip_Anomaly_" \o ToString(ChirpsAnalysisYears[yearIdx + 1]) \o "_mm",
          anomalies'[Len(anomalies')].image))
    /\ UNCHANGED <<script, frames, polygons, yearly, polyRows, checks,
                   stages, trend, stats, table, charts>>

\* analysisYears.map(calculateEvaporationAnomaly): the next year
CalculateEvaporationAnomaly ==
    /\ script = "ERA5"
    /\ yearIdx < Len(Era5AnalysisYears)
    /\ yearIdx' = yearIdx + 1
    /\ \E lenient \in BOOLEAN :
          anomalies' = Append(anomalies,
              [year |-> Era5AnalysisYears[yearIdx + 1], band |-> "total_evaporation",
               reducer |-> "sum", lenient |-> lenient,
               image |-> EvaporationAnomaly(Era5AnalysisYears[yearIdx + 1], lenient)])
    /\ checks' = Append(checks,
          [baselineHasImages |-> EvaporationBaselineHasImages,
           targetHasImages |-> EvaporationTargetHasImages(Era5AnalysisYears[yearIdx + 1])])
    /\ exports' = Append(exports, EvaporationExport(Era5AnalysisYears[yearIdx + 1],
                                                    anomalies'[Len(anomalies')].image))
    /\ UNCHANGED <<script, frames, polygons, yearly, polyRows,
                   stages, trend, stats, table, charts>>

\* targetYears.forEach: the three calculateAnomaly calls of the next year
CalculateAnomaly ==
    /\ script = "GRIDMET"
    /\ yearIdx < Len(GridmetTargetYears)
    /\ yearIdx' = yearIdx + 1
    /\ \E lenient \in BOOLEAN :
          anomalies' = anomalies \o
              [v \in 1..Len(GridmetVariables) |->
                  [year |-> GridmetTargetYears[yearIdx + 1],
                   band |-> GridmetVariables[v].band,
                   reducer |-> GridmetVariables[v].reducer,
                   lenient |-> lenient,
                   image |-> GridmetAnomaly(GridmetVariables[v].band,
                                            GridmetVariables[v].reducer,
                                            GridmetTargetYears[yearIdx + 1], lenient)]]
    /\ exports' = exports \o
          [v \in 1..Len(GridmetVariables) |->
              ExportAnomalyImage(
                  GridmetVariables[v].name \o "_Anomaly_"
                      \o ToString(GridmetTargetYears[yearIdx + 1])
                      \o "_" \o GridmetVariables[v].units,
                  anomalies'[Len(anomalies) + v].image)]
    /\ UNCHANGED <<script, frames, polygons, yearly, polyRows, checks,
                   stages, trend, stats, table, charts>>

\* the frames of the anomaly datasets: the last two baseline years and the
\* year after, on the first day of the season, and on its last day
AnomalyDates ==
    {SeasonStart(y) : y \in (BaselineEndYear - 1)..(BaselineEndYear + 1)}
        \cup {SeasonEnd(BaselineEndYear + 1)}

AnomalyFrames == [date : AnomalyDates, px : Rasters, hasBand : {TRUE}]

InitAnomaly ==
    /\ script \in {"CHIRPS", "ERA5", "GRIDMET"}
    /\ frames \in SubsetsUpTo(AnomalyFrames, MaxAnomalyFrames)
    /\ polygons = <<[geom |-> {1}, id |-> FeatureId(1), props |-> NoFeatureProps]>>
    /\ yearIdx = 0
    /\ yearly = <<>>
    /\ polyRows = [i \in 1..Len(polygons) |-> NotDone]
    /\ anomalies = <<>>
    /\ checks = <<>>
    /\ stages = <<>>
    /\ trend = NotComputed
    /\ stats = NoStats
    /\ table = NoTable
    /\ exports = <<>>
    /\ charts = NoCharts

NextAnomaly ==
    \/ CalculatePrecipAnomaly
    \/ CalculateEvaporationAnomaly
    \/ CalculateAnomaly

SpecAnomaly == InitAnomaly /\ [][NextAnomaly]_vars

\* the dataset with the sign of every value changed
NegateFrames(fs) ==
    {[f EXCEPT !.px = [p \in Pixels |->
                          IF f.px[p].ok THEN RSub(Num(0), f.px[p]) ELSE Masked]] :
        f \in fs}

\* the anomalies one run of the script computes
RunLength ==
    IF script = "CHIRPS" THEN Len(ChirpsAnalysisYears)
    ELSE IF script = "ERA5" THEN Len(Era5AnalysisYears)
    ELSE Len(GridmetTargetYears) * Len(GridmetVariables)

\* the script is run again, over the dataset with the signs changed
NegateDataset ==
    /\ script \in {"CHIRPS", "ERA5", "GRIDMET"}
    /\ Len(anomalies) = RunLength
    /\ yearIdx > 0
    /\ frames' = NegateFrames(frames)
    /\ yearIdx' = 0
    /\ UNCHANGED <<script, polygons, yearly, polyRows, anomalies, checks,
                   stages, trend, stats, table, exports, charts>>

NextNegation == NextAnomaly \/ NegateDataset

\* two runs of an anomaly script: over a dataset, then over its negation
SpecNegation == InitAnomaly /\ [][NextNegation]_vars

\* frames of a dataset in which the no-data value of the exports occurs
\* as a value
SentinelFrames ==
    [date : AnomalyDates,
     px : [Pixels -> {Masked, Num(0), Num(NoDataValue)}],
     hasBand : {TRUE}]

\* the scripts that export with unmask(-9999): the CHIRPS and GRIDMET
\* anomalies over such a dataset, the NDVI composites and trend
InitRoundTrip ==
    \/ /\ InitAnomaly
       /\ script \in {"CHIRPS", "GRIDMET"}
    \/ /\ script \in {"CHIRPS", "GRIDMET"}
       /\ frames \in SubsetsUpTo(SentinelFrames, MaxAnomalyFrames)
       /\ polygons = <<[geom |-> {1}, id |-> FeatureId(1), props |-> NoFeatureProps]>>
       /\ yearIdx = 0
       /\ yearly = <<>>
       /\ polyRows = [i \in 1..Len(polygons) |-> NotDone]
       /\ anomalies = <<>>
       /\ checks = <<>>
       /\ stages = <<>>
       /\ trend = NotComputed
       /\ stats = NoStats
       /\ table = NoTable
       /\ exports = <<>>
       /\ charts = NoCharts
    \/ /\ InitComposite
       /\ script = "NDVI"

NextRoundTrip ==
    \/ CalculatePrecipAnomaly
    \/ CalculateAnomaly
    \/ YearlyNDVI
    \/ ComputeNdviTrend
    \/ ComputeNdviStats
    \/ NdviCalculatePolygonTrend
    \/ NdviExportTable
    \/ NdviExportImages
    \/ NdviCharts

SpecRoundTrip == InitRoundTrip /\ [][NextRoundTrip]_vars

Init == InitComposite \/ InitAnomaly

Next == NextComposite \/ NextAnomaly

Spec == Init /\ [][Next]_vars

-----------------------------------------------------------------------------
(* Properties of the yearly composites *)

Band == IF script = "RVI" THEN "RVI" ELSE "NDVI"

WindowStart(year) == FromYMD(year, SeasonStartMonth, SeasonStartDay)

WindowEnd(year) ==
    IF script = "NDVI" THEN FromYMD(year, NdviSeasonEndMonth, NdviSeasonEndDay)
    ELSE FromYMD(year, SeasonEndMonth, SeasonEndDay)

\* the source frames dated in the seasonal window of a year
WindowFrames(year) ==
    {f \in frames : /\ OverallStart <= f.date /\ f.date < OverallEnd
                    /\ WindowStart(year) <= f.date /\ f.date < WindowEnd(year)}

\* the constant sentinel raster: 0 inside the study area
SentinelRaster == [p \in Pixels |-> IF p \in StudyArea THEN Num(0) ELSE Masked]

IsSentinel(img) == ~img.err /\ img.bands = <<Band>> /\ img.data = <<SentinelRaster>>

ReportsData(img) == img.props["has_data_in_polygons"] = Some(1)

\* the aggregation of a year's window, before any check
Aggregation(year) ==
    ReduceCollection(WindowFrames(year), Band, IF script = "RVI" THEN "median" ELSE "p95")

AggregationHasData(year) ==
    /\ Len(Aggregation(year).bands) = 1
    /\ \E p \in StudyArea : Aggregation(year).data[1][p].ok

\* C1: the compositing step yields exactly one composite per requested
\* year, in order, each carrying its year; no year is skipped or doubled,
\* also when a year has no frames.
C1_OneCompositePerYear ==
    /\ Len(yearly) = yearIdx
    /\ \A k \in 1..Len(yearly) : yearly[k].props["year"] = Some(StartYear + k - 1)
    /\ yearIdx = EndYear - StartYear + 1 =>
          \A y \in StartYear..EndYear :
              Cardinality({k \in 1..Len(yearly) : yearly[k].props["year"] = Some(y)}) = 1

C1_Witness ==
    /\ yearIdx = EndYear - StartYear + 1
    /\ \E y \in StartYear..EndYear : WindowFrames(y) = {}
    /\ \E y \in StartYear..EndYear : WindowFrames(y) # {}

\* C2: a year whose window holds no frame gets the constant sentinel
\* raster (0), and its data-presence flag does not report data.
C2_EmptyYearIsFallback ==
    \A k \in 1..Len(yearly) :
        WindowFrames(StartYear + k - 1) = {} =>
            IsSentinel(yearly[k]) /\ ~ReportsData(yearly[k])

C2_Witness ==
    \E k \in 1..Len(yearly) :
        /\ WindowFrames(StartYear + k - 1) = {}
        /\ frames # {}
        /\ script = "NDVI"

\* C3: a year with frames gets the sentinel raster, not reporting data,
\* whenever the aggregation lacks the band or has no unmasked pixel inside
\* the study area, and the clipped aggregation otherwise.
C3_FallbackWhenNoUnmaskedPixel ==
    \A k \in 1..Len(yearly) :
        LET year == StartYear + k - 1
        IN  WindowFrames(year) # {} =>
              IF AggregationHasData(year)
              THEN yearly[k].data = Clip(Aggregation(year), StudyArea).data
              ELSE IsSentinel(yearly[k]) /\ ~ReportsData(yearly[k])

\* C4: every composite carries num_images_in_composite, the number of
\* source frames in its year's window (0 for a year without frames).
C4_FrameCountCarried ==
    \A k \in 1..Len(yearly) :
        yearly[k].props["num_images_in_composite"]
            = Some(Cardinality(WindowFrames(StartYear + k - 1)))

C4_Witness ==
    /\ Len(yearly) = 2
    /\ WindowFrames(StartYear) = {}
    /\ Cardinality(WindowFrames(EndYear)) = 2
    /\ script = "RVI"

-----------------------------------------------------------------------------
(* Properties of the per-polygon trend *)

\* the years whose composite has a non-null mean inside polygon i
NonNullYears(i) ==
    {k \in 1..Len(yearly) :
        \E p \in polygons[i].geom : yearly[k].data[1][p].ok}

\* C8: slope and offset are null when fewer than 2 non-null yearly points
\* remain, and a fit when at least 2 remain; never 0 in place of null.
C8_TrendUndefinedBelowTwoPoints ==
    \A i \in 1..Len(polygons) :
        polyRows[i].done =>
            IF Cardinality(NonNullYears(i)) < 2
            THEN polyRows[i].slope = Masked /\ polyRows[i].offset = Masked
            ELSE polyRows[i].slope.ok /\ polyRows[i].offset.ok

C8_Witness ==
    \E i, j \in 1..Len(polygons) :
        /\ polyRows[i].done /\ Cardinality(NonNullYears(i)) = 1
        /\ polyRows[j].done /\ Cardinality(NonNullYears(j)) = 2
        /\ polyRows[j].slope.n # 0

\* C9: trend_points_used is always reported and is the number of non-null
\* yearly points of the region, fitted or not.
C9_PointsUsedIsNonNullCount ==
    \A i \in 1..Len(polygons) :
        polyRows[i].done =>
            /\ ~polyRows[i].err
            /\ polyRows[i].trend_points_used = Cardinality(NonNullYears(i))

C9_Witness ==
    \E i, j \in 1..Len(polygons) :
        /\ polyRows[i].done /\ polyRows[i].trend_points_used = 0
        /\ polyRows[j].done /\ polyRows[j].trend_points_used = 2

\* a year gives polygon i no data: it had no source frame (its composite
\* is the fallback raster) or its mean inside the polygon is null
LacksData(i, k) ==
    \/ WindowFrames(StartYear + k - 1) = {}
    \/ k \notin NonNullYears(i)

\* C10: a region with 1 valid year among the 2 requested has a null slope
\* and trend_points_used = 1, whichever way the other year lacks data.
C10_OneValidYearOfTwo ==
    \A i \in 1..Len(polygons) :
        (polyRows[i].done /\ Cardinality({k \in 1..Len(yearly) : ~LacksData(i, k)}) = 1) =>
            polyRows[i].slope = Masked /\ polyRows[i].trend_points_used = 1

-----------------------------------------------------------------------------
(* Properties of the anomalies *)

ScaleOf == IF script = "ERA5" THEN UnitScale ELSE 1

BaselineYears ==
    (IF script = "GRIDMET" THEN GridmetBaselineStartYear ELSE BaselineStartYear)
        ..BaselineEndYear

\* the source frames dated in the seasonal window of a year
SeasonFrames(y) == {f \in frames : SeasonStart(y) <= f.date /\ f.date < SeasonEnd(y)}

\* the seasonal aggregate of a year at a pixel, in output units
SeasonalAggregate(y, reducer, p) ==
    LET vals == ValidAt(SetToSeq(SeasonFrames(y)), p)
    IN  IF vals = <<>> THEN Masked
        ELSE RMul(Num(ScaleOf), ReduceValues(reducer, vals))

\* target aggregate minus the mean of the baseline years' aggregates
ExpectedAnomaly(year, reducer, p) ==
    LET yrs == SetToSeq({y \in BaselineYears : SeasonalAggregate(y, reducer, p).ok})
        target == SeasonalAggregate(year, reducer, p)
    IN  IF yrs = <<>> \/ ~target.ok THEN Masked
        ELSE RSub(target,
                  RMean([i \in 1..Len(yrs) |-> SeasonalAggregate(yrs[i], reducer, p)]))

Computed(img) == ~img.err /\ ~img.props["error_message"].has

IsUndefinedWithReason(img) ==
    /\ ~img.err
    /\ Len(img.bands) = 1
    /\ \A p \in Pixels : ~img.data[1][p].ok
    /\ img.props["error_message"].has

\* C6: in every anomaly variant, a target year without frames gives a
\* fully masked anomaly raster that carries a diagnostic reason.
C6_EmptyTargetIsUndefined ==
    \A k \in 1..Len(anomalies) :
        SeasonFrames(anomalies[k].year) = {} =>
            IsUndefinedWithReason(anomalies[k].image)

BaselineIsEmpty == \A y \in BaselineYears : SeasonFrames(y) = {}

\* C7: in the evaporation script an empty baseline is detected
\* (baselineHasImages is false) and the anomaly raster is fully masked
\* with a diagnostic reason, for every target year.
C7_EmptyBaselineIsUndefined ==
    (script = "ERA5" /\ BaselineIsEmpty) =>
        \A k \in 1..Len(anomalies) :
            /\ ~checks[k].baselineHasImages
            /\ IsUndefinedWithReason(anomalies[k].image)

-----------------------------------------------------------------------------
(* Properties of the pixel-wise trend *)

\* the composites that are valid at a pixel
ValidYearsAt(p) == {k \in 1..Len(yearly) : yearly[k].data[1][p].ok}

-----------------------------------------------------------------------------
(* Properties of the regional reduction *)

\* polygon i has no valid pixel in composite k
EmptyRegionYear(i, k) == \A p \in polygons[i].geom : ~yearly[k].data[1][p].ok

\* C12: the mean of a composite over a polygon without a valid pixel is
\* null, not an error and not 0; the null point is left out of the
\* polygon's series, and the other years and polygons keep their values.
C12_EmptyRegionYearIsNull ==
    /\ \A i \in 1..Len(polygons) :
          polyRows[i].done =>
              /\ ~polyRows[i].err
              /\ \A k \in 1..Len(yearly) :
                    SeriesOf(yearly, Band, polygons[i].geom)[k].y.ok <=> ~EmptyRegionYear(i, k)
              /\ polyRows[i].trend_points_used
                    = Cardinality({k \in 1..Len(yearly) : ~EmptyRegionYear(i, k)})
    /\ stats.done =>
          /\ ~stats.err
          /\ Len(stats.rows) = Len(yearly) * Len(polygons)
          /\ \A n \in 1..Len(stats.rows) :
                \E k \in 1..Len(yearly) :
                    /\ stats.rows[n].year = StartYear + k - 1
                    /\ stats.rows[n].mean.ok <=> ~EmptyRegionYear(stats.rows[n].polygon, k)
    /\ table.done =>
          /\ ~table.err
          /\ \A i \in 1..Len(polygons) : polyRows[i].done /\ ~polyRows[i].err

C12_Witness ==
    \E i, j \in 1..Len(polygons) :
        /\ script = "NDVI"
        /\ polyRows[i].done /\ polyRows[j].done
        /\ \E k \in 1..Len(yearly) : EmptyRegionYear(i, k)
        /\ polyRows[i].trend_points_used = 1
        /\ polyRows[j].trend_points_used = 2
        /\ polyRows[j].slope.ok
        /\ table.done

-----------------------------------------------------------------------------
(* Properties of the batch when a unit raises *)

\* year k has a source frame without the requested band
Affected(k) == \E f \in WindowFrames(StartYear + k - 1) : ~f.hasBand

\* C13: a frame without the requested band aborts only its own year: the
\* per-year statistics of every other year are still produced for every
\* polygon, and every polygon still gets its trend row.
C13_FatalErrorIsUnitScoped ==
    /\ stats.done =>
          \A k \in 1..Len(yearly) :
              ~Affected(k) =>
                  \A i \in 1..Len(polygons) :
                      \E n \in 1..Len(stats.rows) :
                          /\ stats.rows[n].year = StartYear + k - 1
                          /\ stats.rows[n].polygon = i
    /\ \A i \in 1..Len(polygons) :
          (polyRows[i].done /\ \E k \in 1..Len(yearly) : ~Affected(k)) =>
              ~polyRows[i].err

-----------------------------------------------------------------------------
(* Properties of the fallback zeros *)

\* the composite of year k is the default image: its window had no frame
FromFallback(k) == WindowFrames(StartYear + k - 1) = {}

\* a composite that says it holds no data: no source frame, or the
\* data flag down
TaggedFallback(img) ==
    \/ img.props["num_images_in_composite"] = Some(0)
    \/ img.props["has_data_in_polygons"] = Some(0)

\* the composites of the requested years when every year is the default
\* image
FallbackComposites ==
    [k \in 1..Len(Years) |->
        IF script = "RVI" THEN RviProps(RviDefaultImage(Years[k]), Years[k], 0)
        ELSE NdviProps(NdviDefaultImage(Years[k]), Years[k], 0, FALSE)]

\* the trend raster fitted to the default images alone
FallbackTrend == Clip(LinearFitImage(FallbackComposites, Band), StudyArea)

\* the trend row of polygon i fitted to the default images alone
FallbackRow(i) ==
    LET series == NotNull(SeriesOf(FallbackComposites, Band, polygons[i].geom))
    IN  [done |-> TRUE, err |-> FALSE,
         polygon_id_prop |-> PolygonId(polygons[i]),
         slope |-> TrendStats(series).scale, offset |-> TrendStats(series).offset,
         trend_points_used |-> Len(series)]

\* C14: an artifact made of fallback zeros is told apart from the same
\* artifact made of data: a composite is tagged exactly when it is the
\* default image, and a trend raster or a trend row that equals, tags
\* included, the one fitted to default images alone comes from default
\* images alone.
C14_FallbackZerosAreTagged ==
    /\ \A k \in 1..Len(yearly) : TaggedFallback(yearly[k]) <=> FromFallback(k)
    /\ (trend.done /\ trend.image = FallbackTrend) =>
          \A k \in 1..Len(yearly) : FromFallback(k)
    /\ \A i \in 1..Len(polygons) :
          (polyRows[i].done /\ polyRows[i] = FallbackRow(i)) =>
              \A k \in 1..Len(yearly) : FromFallback(k)

-----------------------------------------------------------------------------
(* Properties of the stages of a compositing unit *)

\* a downstream stage has taken the composites: the trend fit, the
\* regional statistics, the trend rows or the exports
HandedDownstream ==
    \/ trend.done
    \/ stats.done
    \/ \E i \in 1..Len(polygons) : polyRows[i].done
    \/ exports # <<>>

\* the composite carries its data-presence flag
Flagged(img) == img.props["has_data_in_polygons"].has

\* C15: when a downstream stage takes the composites, every year's unit
\* has gone through filtering, aggregation, the band-presence check, the
\* data-presence check and the finalization, in this order, and its
\* composite carries the data-presence flag.
C15_CheckedAndFlaggedBeforeDownstream ==
    HandedDownstream =>
        /\ Len(stages) = Len(Years)
        /\ \A k \in 1..Len(stages) :
              /\ stages[k] = <<"RAW_FRAMES_FILTERED", "AGGREGATED",
                               "BAND_PRESENCE_CHECKED", "DATA_PRESENCE_CHECKED",
                               "FINALIZED">>
              /\ Flagged(yearly[k])

-----------------------------------------------------------------------------
(* Properties of the exported table *)

\* C16: the exported table has the columns polygon_id_prop, <band>_slope,
\* <band>_offset, trend_points_used and one row per polygon, in the
\* polygons' order, with the polygon's identifier and point count; a
\* polygon with fewer than 2 points has its row, slope and offset null.
C16_OneRowPerRegion ==
    table.done =>
        /\ ~table.err
        /\ table.columns =
              (IF script = "RVI"
               THEN <<"polygon_id_prop", "RVI_slope", "RVI_offset", "trend_points_used">>
               ELSE <<"polygon_id_prop", "NDVI_slope", "NDVI_offset", "trend_points_used">>)
        /\ Len(table.rows) = Len(polygons)
        /\ \A i \in 1..Len(polygons) :
              /\ DOMAIN table.rows[i]
                    = {"polygon_id_prop", "slope", "offset", "trend_points_used"}
              /\ table.rows[i].polygon_id_prop = PolygonId(polygons[i])
              /\ table.rows[i].trend_points_used = Cardinality(NonNullYears(i))
              /\ IF Cardinality(NonNullYears(i)) < 2
                 THEN table.rows[i].slope = Masked /\ table.rows[i].offset = Masked
                 ELSE table.rows[i].slope.ok /\ table.rows[i].offset.ok

C16_Witness ==
    /\ table.done
    /\ \E i, j \in 1..Len(polygons) :
          /\ Cardinality(NonNullYears(i)) = 1
          /\ table.rows[i].slope = Masked
          /\ table.rows[i].trend_points_used = 1
          /\ table.rows[j].slope.ok
          /\ table.rows[j].slope.n # 0

-----------------------------------------------------------------------------
(* Properties of the exported rasters *)

\* the raster has no masked pixel left
NoMaskedPixel(img) ==
    \A b \in 1..Len(img.data) : \A p \in Pixels : img.data[b][p].ok

\* C17: every raster handed to an export task has no masked pixel: the
\* masked pixels have been replaced by the no-data value -9999.
C17_ExportsAreUnmasked ==
    \A e \in 1..Len(exports) :
        ~exports[e].image.err => NoMaskedPixel(exports[e].image)

-----------------------------------------------------------------------------
(* Properties of the evaporation export *)

\* C18: in the evaporation script, an export task exists for a target
\* year only if that year's anomaly has the 'anomaly' band and a valid
\* pixel inside the study area.
C18_ExportOnlyValidAnomaly ==
    script = "ERA5" =>
        \A e \in 1..Len(exports) :
            \E k \in 1..Len(anomalies) :
                /\ exports[e].description
                      = "Total_Evaporation_Anomaly_" \o ToString(anomalies[k].year)
                /\ EvaporationExportCondition(anomalies[k].image)

-----------------------------------------------------------------------------
(* Properties of the polygon identifiers *)

\* C19: every polygon is identified by its 'Name' when it has one, else
\* by its feature id, else by its index, and by the same identifier in
\* the table (polygon_id_prop) and in the title of its chart.
C19_SameIdentifierEverywhere ==
    \A i \in 1..Len(polygons) :
        LET name == polygons[i].props["Name"]
            identifier == IF name.has /\ name.v # "" THEN name.v
                          ELSE IF polygons[i].id # "" THEN polygons[i].id
                          ELSE ToString(i)
        IN  /\ (table.done /\ ~table.err) =>
                  table.rows[i].polygon_id_prop = identifier
            /\ charts.done =>
                  charts.titles[i] = Band \o " Trend - ID: " \o identifier

-----------------------------------------------------------------------------
(* Properties of the fit *)

\* C20: the fit of a series that lies on a line y = a + b * year gives
\* slope b and intercept a: a polygon's row fitted to 2 yearly means and a
\* pixel fitted to 2 yearly values pass through each of their points, with
\* the year as the independent variable, and a series of 3 years on a
\* line gives the line's coefficients, per polygon and per pixel.
C20_LinearSeriesRecovered ==
    /\ \A i \in 1..Len(polygons) :
          (polyRows[i].done /\ ~polyRows[i].err /\ polyRows[i].trend_points_used >= 2) =>
              \A k \in NonNullYears(i) :
                  RAdd(polyRows[i].offset,
                       RMul(polyRows[i].slope, Num(StartYear + k - 1)))
                      = MeanRegion(yearly[k], Band, polygons[i].geom)
    /\ trend.done =>
          \A p \in StudyArea :
              Cardinality(ValidYearsAt(p)) >= 2 =>
                  \A k \in ValidYearsAt(p) :
                      RAdd(trend.image.data[2][p],
                           RMul(trend.image.data[1][p], Num(StartYear + k - 1)))
                          = yearly[k].data[1][p]
    /\ \A a, b \in {Num(0 - 1), Num(0), V(1, 2), Num(2)} :
          LET line == [k \in 1..3 |->
                          [x |-> Num(StartYear + k - 1),
                           y |-> RAdd(a, RMul(b, Num(StartYear + k - 1)))]]
          IN  /\ TrendStats(line) = [scale |-> b, offset |-> a]
              /\ PixelFit(line) = [scale |-> b, offset |-> a]

C20_Witness ==
    /\ trend.done
    /\ \E p \in StudyArea :
          /\ Cardinality(ValidYearsAt(p)) = 2
          /\ trend.image.data[1][p].n # 0
          /\ trend.image.data[2][p].n # 0
    /\ \E i \in 1..Len(polygons) :
          /\ polyRows[i].done
          /\ polyRows[i].trend_points_used = 2
          /\ polyRows[i].slope.ok
          /\ polyRows[i].slope.n # 0
          /\ polyRows[i].offset.n # 0

-----------------------------------------------------------------------------
(* Properties of the anomaly under a change of sign *)

\* C21: the anomaly over the negated dataset is, pixel by pixel, the
\* negated anomaly over the dataset, for every target year and variant
\* (same run of the platform), also when a baseline year or the target
\* year has no frame.
C21_NegatedDatasetNegatesAnomaly ==
    \A k \in 1..RunLength :
        (k + RunLength <= Len(anomalies)
            /\ anomalies[k].lenient = anomalies[k + RunLength].lenient) =>
            /\ anomalies[k + RunLength].year = anomalies[k].year
            /\ anomalies[k + RunLength].band = anomalies[k].band
            /\ anomalies[k + RunLength].image = Multiply(anomalies[k].image, 0 - 1)

C21_Witness ==
    /\ Len(anomalies) = 2 * RunLength
    /\ script = "ERA5"
    /\ \E y \in BaselineYears : SeasonFrames(y) = {}
    /\ \E k \in 1..RunLength :
          /\ anomalies[k].lenient = anomalies[k + RunLength].lenient
          /\ Computed(anomalies[k].image)
          /\ \E p \in Pixels :
                /\ anomalies[k].image.data[1][p].ok
                /\ anomalies[k].image.data[1][p].n > 0
                /\ anomalies[k + RunLength].image.data[1][p].n < 0

-----------------------------------------------------------------------------
(* Properties of the baseline mean *)

\* the baseline mean an anomaly was computed with, at a pixel
BaselineMeanUsed(k, p) ==
    RSub(SeasonalAggregate(anomalies[k].year, anomalies[k].reducer, p),
         anomalies[k].image.data[1][p])

\* the sum of the baseline years' seasonal aggregates at a pixel
BaselineTotal(reducer, p) ==
    LET yrs == SetToSeq({y \in BaselineYears : SeasonalAggregate(y, reducer, p).ok})
    IN  RSum([i \in 1..Len(yrs) |-> SeasonalAggregate(yrs[i], reducer, p)])

\* C22: the baseline mean is taken over one seasonal aggregate for each
\* year from the baseline start year to the baseline end year: at a pixel
\* where every baseline year that has frames has a value, it is the sum of
\* the aggregates divided by the number of baseline years, a year without
\* frames counting as one of them.
C22_BaselineMeanOverEveryYear ==
    \A k \in 1..Len(anomalies) :
        (Computed(anomalies[k].image) /\ anomalies[k].reducer = "sum") =>
            \A p \in Pixels :
                (/\ anomalies[k].image.data[1][p].ok
                 /\ \A y \in BaselineYears :
                       SeasonFrames(y) # {} =>
                           SeasonalAggregate(y, anomalies[k].reducer, p).ok) =>
                    BaselineMeanUsed(k, p)
                        = RDiv(BaselineTotal(anomalies[k].reducer, p),
                               Num(Cardinality(BaselineYears)))

-----------------------------------------------------------------------------
(* Properties of the keys of the per-unit results *)

\* C23: the per-polygon statistics hold exactly one entry for each
\* (polygon, year) pair, with that polygon's mean of that year's
\* composite; a polygon's trend row is the one fitted to its own yearly
\* means whichever polygons are already done, and is the same when the
\* years are taken in the reverse order.
C23_ResultsKeyedByRegionAndYear ==
    /\ stats.done =>
          /\ ~stats.err
          /\ Len(stats.rows) = Len(polygons) * Len(yearly)
          /\ \A i \in 1..Len(polygons) : \A k \in 1..Len(yearly) :
                LET entries == {n \in 1..Len(stats.rows) :
                                   /\ stats.rows[n].polygon = i
                                   /\ stats.rows[n].year = StartYear + k - 1}
                IN  /\ Cardinality(entries) = 1
                    /\ \A n \in entries :
                          stats.rows[n].mean
                              = MeanRegion(yearly[k], Band, polygons[i].geom)
    /\ \A i \in 1..Len(polygons) :
          polyRows[i].done =>
              LET reversed == [k \in 1..Len(yearly) |-> yearly[Len(yearly) + 1 - k]]
                  series == NotNull(SeriesOf(reversed, Band, polygons[i].geom))
              IN  /\ ~polyRows[i].err
                  /\ polyRows[i].polygon_id_prop = PolygonId(polygons[i])
                  /\ polyRows[i].trend_points_used = Len(series)
                  /\ polyRows[i].slope = TrendStats(series).scale
                  /\ polyRows[i].offset = TrendStats(series).offset

C23_Witness ==
    /\ script = "NDVI"
    /\ stats.done
    /\ Len(polygons) = 2
    /\ polyRows[2].done
    /\ ~polyRows[1].done
    /\ polyRows[2].slope.ok
    /\ polyRows[2].slope.n # 0
    /\ polygons[1].geom # polygons[2].geom

-----------------------------------------------------------------------------
(* Properties of the no-data value of the exports *)

\* the exported raster read back: the pixels that hold the no-data value
\* are masked
ReadNoData(img, k) ==
    [img EXCEPT !.data = [b \in 1..Len(img.data) |->
        [p \in Pixels |-> IF img.data[b][p] = Num(k) THEN Masked ELSE img.data[b][p]]]]

\* the rasters the export tasks were made from, in the order of the tasks
ExportedRasters ==
    IF script = "NDVI"
    THEN <<Select(FirstOfYear(yearly, 2023), "NDVI"),
           Select(FirstOfYear(yearly, 2024), "NDVI"),
           Select(trend.image, "scale")>>
    ELSE [k \in 1..Len(anomalies) |-> anomalies[k].image]

\* a valid pixel of the raster holds the no-data value
HoldsNoDataValue(img) ==
    \E b \in 1..Len(img.data) : \E p \in Pixels : img.data[b][p] = Num(NoDataValue)

-----------------------------------------------------------------------------
(* Properties of the seasonal window *)

\* the source frames dated from the first to the last day of the window
\* of a year, both included
InclusiveWindowFrames(year) ==
    {f \in frames : /\ OverallStart <= f.date /\ f.date < OverallEnd
                    /\ WindowStart(year) <= f.date /\ f.date <= WindowEnd(year)}

\* C25: the composite of a year is made of every frame dated from the
\* window's first day to its last day, both included: the frame count it
\* carries counts the frames dated on the last day.
C25_WindowEndDayIncluded ==
    \A k \in 1..Len(yearly) :
        yearly[k].props["num_images_in_composite"]
            = Some(Cardinality(InclusiveWindowFrames(StartYear + k - 1)))

-----------------------------------------------------------------------------
(* Properties of the guard of the NDVI exports *)

\* C26: the NDVI script has an export task for a year only if that
\* year's composite exists and has the 'NDVI' band, and a task for the
\* trend slope only if the trend has the 'scale' band.
C26_ExportOnlyWithBand ==
    (script = "NDVI" /\ exports # <<>>) =>
        /\ \A y \in {2023, 2024} :
              (\E e \in 1..Len(exports) :
                    exports[e].description = "NDVI_SpringSummer_" \o ToString(y)) =>
                  /\ ~FirstOfYear(yearly, y).err
                  /\ HasBand(FirstOfYear(yearly, y), "NDVI")
        /\ (\E e \in 1..Len(exports) :
                exports[e].description = "NDVI_Trend_Slope_SpringSummer") =>
              /\ ~trend.image.err
              /\ HasBand(trend.image, "scale")

-----------------------------------------------------------------------------
(* Properties of the band of the composites *)

\* C27: every yearly composite has exactly the band of its index, named
\* 'RVI' or 'NDVI', whichever branch produced it, and no selection of
\* that band raises: not in the trend, the statistics, the trend rows or
\* the exports.
C27_CompositeHasCanonicalBand ==
    /\ \A k \in 1..Len(yearly) :
          /\ ~yearly[k].err
          /\ yearly[k].bands = <<IF script = "RVI" THEN "RVI" ELSE "NDVI">>
    /\ trend.done => ~trend.image.err
    /\ stats.done => ~stats.err
    /\ \A i \in 1..Len(polygons) : polyRows[i].done => ~polyRows[i].err
    /\ \A e \in 1..Len(exports) : ~exports[e].image.err

C27_Witness ==
    /\ script = "NDVI"
    /\ Len(yearly) = 2
    /\ FromFallback(1)
    /\ ~FromFallback(2)
    /\ ReportsData(yearly[2])
    /\ \E p \in StudyArea : ~yearly[2].data[1][p].ok
    /\ exports # <<>>

-----------------------------------------------------------------------------
(* Properties of the target years *)

\* C28: every target year an anomaly is computed for is later than the
\* baseline end year, so it is not one of the baseline years.
C28_TargetYearAfterBaseline ==
    \A k \in 1..Len(anomalies) :
        /\ anomalies[k].year > BaselineEndYear
        /\ anomalies[k].year \notin BaselineYears

-----------------------------------------------------------------------------
(* Properties of the windows of the years *)

\* the frames the composite of a year is made of
CollectionForYear(year) ==
    IF script = "RVI" THEN RviCollectionForYear(year) ELSE NdviCollectionForYear(year)

\* the calendar year and the month and day (mmdd) of a date
YearOf(date) == date \div 10000
MonthDayOf(date) == date % 10000

\* the month and day the window ends before
WindowEndMonthDay ==
    IF script = "RVI" THEN SeasonEndMonth * 100 + SeasonEndDay
    ELSE NdviSeasonEndMonth * 100 + NdviSeasonEndDay

\* C29: a frame is among the frames of a year's composite exactly when
\* it is dated in that calendar year, from the window's start month and
\* day up to its end month and day, the same for every year; so a frame
\* is used for at most one year, a frame outside the window for none,
\* and a composite made of frames is valid only where one of them is.
C29_OneWindowPerYear ==
    /\ \A y \in StartYear..EndYear : \A f \in frames :
          f \in CollectionForYear(y) <=>
              /\ YearOf(f.date) = y
              /\ SeasonStartMonth * 100 + SeasonStartDay <= MonthDayOf(f.date)
              /\ MonthDayOf(f.date) < WindowEndMonthDay
    /\ \A f \in frames :
          Cardinality({y \in StartYear..EndYear : f \in CollectionForYear(y)}) <= 1
    /\ \A k \in 1..Len(yearly) :
          /\ yearly[k].props["num_images_in_composite"]
                = Some(Cardinality({f \in frames : YearOf(f.date) = StartYear + k - 1
                                                    /\ f \in CollectionForYear(YearOf(f.date))}))
          /\ yearly[k].props["num_images_in_composite"] # Some(0) =>
                \A p \in Pixels :
                    yearly[k].data[1][p].ok =>
                        \E f \in frames : /\ YearOf(f.date) = StartYear + k - 1
                                          /\ f \in CollectionForYear(StartYear + k - 1)
                                          /\ f.px[p].ok

C29_Witness ==
    /\ script = "RVI"
    /\ Len(yearly) = 2
    /\ \E f, g \in frames :
          /\ f \in CollectionForYear(StartYear)
          /\ \A y \in StartYear..EndYear : g \notin CollectionForYear(y)
          /\ \E p \in StudyArea : ~f.px[p].ok /\ g.px[p].ok /\ ~yearly[1].data[1][p].ok
    /\ yearly[1].props["num_images_in_composite"] = Some(1)

====
